---- MODULE Spec2Model ----
(***************************************************************************)
(* Model of the skill maintenance scripts:                                 *)
(*   skills/adk_developer/scripts/update_skill.py                          *)
(*   skills/a2ui_developer/scripts/update_skill.py                         *)
(*   skills/agent_engine_terraform_deployer/scripts/prepare_agent.py       *)
(*                                                                         *)
(* A directory tree is a set of entries [path, data]: path is the sequence *)
(* of names below the tree's root, data is "dir" for a directory and the   *)
(* file's content otherwise.  A text file is a sequence of tokens: the     *)
(* characters the scripts look at ("\n", " ", "#", "=") and words.         *)
(***************************************************************************)
EXTENDS Integers, Sequences, FiniteSets, TLC

VARIABLES script, cache, skill, pc, idx, run, last, runs,
          files, step, prep, prepRuns

syncVars == <<script, cache, skill, pc, idx, run, last, runs>>
prepVars == <<files, step, prep, prepRuns>>
vars == <<script, cache, skill, pc, idx, run, last, runs, files, step, prep, prepRuns>>

\* Number of times a script is invoked in one behaviour.
MaxRuns == 2

(***************************************************************************)
(* Directory trees                                                         *)
(***************************************************************************)
Dir(p) == [path |-> p, data |-> "dir"]
File(p, d) == [path |-> p, data |-> d]

IsPrefix(p, q) == Len(p) <= Len(q) /\ SubSeq(q, 1, Len(p)) = p

\* Path.exists() below a root that exists.
PathExists(tree, p) == p = <<>> \/ \E e \in tree : e.path = p

IsDir(tree, p) == p = <<>> \/ Dir(p) \in tree

\* os.scandir(p): the names directly below p.
ListDir(tree, p) ==
    {e.path[Len(p) + 1] : e \in {x \in tree : Len(x.path) = Len(p) + 1 /\ IsPrefix(p, x.path)}}

\* shutil.rmtree(p): p and everything below it.
rmtree(tree, p) == {e \in tree : ~IsPrefix(p, e.path)}

\* os.makedirs(p): p and its missing parents.
makedirs(p) == {Dir(SubSeq(p, 1, n)) : n \in 1..Len(p)}

\* Places an entry set given relative to a directory below that directory.
Under(p, rel) == makedirs(p) \cup {[path |-> p \o e.path, data |-> e.data] : e \in rel}

(***************************************************************************)
(* sync_directory                                                          *)
(***************************************************************************)
IGNORE_PATTERNS == {"node_modules", ".git", "__pycache__", ".DS_Store"}

\* fnmatch.fnmatch on a pattern without wildcard characters.
fnmatch(name, pat) == name = pat

\* The callable shutil.ignore_patterns returns, applied to one directory listing.
ignore_patterns(names) == {n \in names : \E p \in IGNORE_PATTERNS : fnmatch(n, p)}

\* shutil.copytree(src, dst, ignore=ignore): the entries it creates.
RECURSIVE copytree(_, _, _)
copytree(tree, src, dst) ==
    LET names == ListDir(tree, src)
        kept == names \ ignore_patterns(names)
    IN makedirs(dst) \cup
       UNION {IF IsDir(tree, src \o <<n>>)
              THEN copytree(tree, src \o <<n>>, dst \o <<n>>)
              ELSE {File(dst \o <<n>>, (CHOOSE e \in tree : e.path = src \o <<n>>).data)}
              : n \in kept}

\* A copy that merges into an existing destination instead of replacing it.
sync_directory_merge(repo, sk, src_rel, dest_rel) ==
    IF ~PathExists(repo, src_rel) THEN sk
    ELSE sk \cup copytree(repo, src_rel, dest_rel)

\* A destination that is cleared before the source is looked at.
sync_directory_eager(repo, sk, src_rel, dest_rel) ==
    LET cleared == IF PathExists(sk, dest_rel) THEN rmtree(sk, dest_rel) ELSE sk
    IN IF ~PathExists(repo, src_rel) THEN cleared
       ELSE cleared \cup copytree(repo, src_rel, dest_rel)

\* sync_directory(src_rel, dest_rel): the skill tree after the call.
sync_directory(repo, sk, src_rel, dest_rel) ==
    IF ~PathExists(repo, src_rel) THEN sk
    ELSE LET cleared == IF PathExists(sk, dest_rel) THEN rmtree(sk, dest_rel) ELSE sk
         IN cleared \cup copytree(repo, src_rel, dest_rel)

(***************************************************************************)
(* Sync mappings                                                           *)
(***************************************************************************)
Scripts == {"adk", "a2ui"}

\* a2ui: DIRECTORIES_TO_SYNC, each synced onto the same relative path.
A2UI_DIRECTORIES_TO_SYNC ==
    << <<"specification">>, <<"docs">>, <<"renderers">>, <<"tools">> >>

\* a2ui: SAMPLES_MAPPING in insertion order.
SAMPLES_MAPPING ==
    << [src |-> <<"samples", "agent", "adk", "rizzcharts">>,
        dest |-> <<"examples", "agent", "rizzcharts">>],
       [src |-> <<"samples", "agent", "adk", "contact_lookup">>,
        dest |-> <<"examples", "agent", "contact_lookup">>],
       [src |-> <<"samples", "client", "lit", "shell">>,
        dest |-> <<"examples", "client", "generic_shell">>] >>

\* adk: DIRECTORIES_TO_SYNC.
ADK_DIRECTORIES_TO_SYNC == << <<"contributing", "samples">> >>

\* adk main: target = "examples" if "samples" in d else d.
AdkTarget(d) == IF \E i \in 1..Len(d) : d[i] = "samples" THEN <<"examples">> ELSE d

\* The calls main() makes after the cache update, in order.  guarded: main
\* itself tests the source and makes the call only when it exists (adk docs).
Plan(s) ==
    IF s = "a2ui"
    THEN [i \in 1..Len(A2UI_DIRECTORIES_TO_SYNC) |->
             [src |-> A2UI_DIRECTORIES_TO_SYNC[i], dest |-> A2UI_DIRECTORIES_TO_SYNC[i],
              guarded |-> FALSE]]
         \o [i \in 1..Len(SAMPLES_MAPPING) |->
             [src |-> SAMPLES_MAPPING[i].src, dest |-> SAMPLES_MAPPING[i].dest,
              guarded |-> FALSE]]
    ELSE [i \in 1..Len(ADK_DIRECTORIES_TO_SYNC) |->
             [src |-> ADK_DIRECTORIES_TO_SYNC[i], dest |-> AdkTarget(ADK_DIRECTORIES_TO_SYNC[i]),
              guarded |-> FALSE]]
         \o << [src |-> <<"docs">>, dest |-> <<"docs">>, guarded |-> TRUE] >>

(***************************************************************************)
(* The reference repository and the skill folder: the inputs               *)
(***************************************************************************)
\* A sample directory of the reference repository at version v, relative to
\* its own root: files, a nested directory, and every ignored name at the top
\* level or nested, some of them with content of their own.
RichContent(v) ==
    { File(<<"README.md">>, v), File(<<".gitignore">>, v),
      Dir(<<"src">>), File(<<"src", "main.py">>, v),
      Dir(<<"src", "__pycache__">>), File(<<"src", "__pycache__", "main.pyc">>, v),
      File(<<"src", ".DS_Store">>, v),
      Dir(<<"node_modules">>), Dir(<<"node_modules", "pkg">>),
      File(<<"node_modules", "pkg", "index.js">>, v),
      Dir(<<".git">>), File(<<".git", "HEAD">>, v) }

PlainContent(v) == { File(<<"index.md">>, v) }

\* The metadata directory a successful clone leaves at the cache root.
GitMeta(v) == { Dir(<<".git">>), File(<<".git", "HEAD">>, v) }

SnapshotIds == {"v1", "v2", "v3"}

\* What a clone or pull of the remote can deliver.  v1 has every source of
\* the script; v2 and v3 lack some of them.
Snapshot(s, v) ==
    LET has(i) == \/ v = "v1"
                  \/ v = "v2" /\ i % 2 = 1
                  \/ v = "v3" /\ i % 2 = 0
        P == Plan(s)
    IN GitMeta(v) \cup { File(<<"README.md">>, v) } \cup
       UNION { IF has(i)
               THEN Under(P[i].src, IF i <= 2 THEN RichContent(v) ELSE PlainContent(v))
               ELSE {}
               : i \in 1..Len(P) }

\* What a destination holds before the script ever ran: unrelated files,
\* among them names the copy would ignore.
StaleContent ==
    { File(<<"old.txt">>, "old"), File(<<"README.md">>, "old"),
      Dir(<<"node_modules">>), File(<<"node_modules", "left.js">>, "old"),
      Dir(<<"src">>), File(<<"src", "gone.py">>, "old") }

\* The part of the skill folder no mapping touches.
SkillBase == { File(<<"SKILL.md">>, "skill"), Dir(<<"scripts">>),
               File(<<"scripts", "update_skill.py">>, "skill") }

\* Which destinations exist before the first run.
StaleLayouts(s) ==
    LET n == Len(Plan(s))
    IN { {}, 1..n, {1}, {i \in 1..n : i % 2 = 0} }

SkillWith(s, layout) ==
    SkillBase \cup UNION { Under(Plan(s)[i].dest, StaleContent) : i \in layout }

\* The cache directory before the first run: absent, an empty directory, a
\* directory that is not a working copy, or a working copy.
InitialCaches(s) ==
    { [exists |-> FALSE, tree |-> {}],
      [exists |-> TRUE, tree |-> {}],
      [exists |-> TRUE, tree |-> { File(<<"junk.txt">>, "junk") }] }
    \cup { [exists |-> TRUE, tree |-> Snapshot(s, v)] : v \in SnapshotIds }

(***************************************************************************)
(* ensure_repo_updated                                                     *)
(***************************************************************************)
\* (REPO_CACHE_PATH / ".git").exists()
IsWorkingCopy(c) == c.exists /\ PathExists(c.tree, <<".git">>)

Outcomes == {"fail"} \cup SnapshotIds

\* run_command("git clone URL .", cwd=REPO_CACHE_PATH) in an empty directory:
\* a failed clone leaves the directory as it found it.
git_clone(s, c, outcome) ==
    IF outcome = "fail" THEN [ok |-> FALSE, cache |-> c]
    ELSE [ok |-> TRUE, cache |-> [exists |-> TRUE, tree |-> Snapshot(s, outcome)]]

\* run_command("git pull", cwd=REPO_CACHE_PATH): fails outside a working
\* copy; a failed pull leaves the working copy as it was.
git_pull(s, c, outcome) ==
    IF outcome = "fail" \/ ~IsWorkingCopy(c) THEN [ok |-> FALSE, cache |-> c]
    ELSE [ok |-> TRUE, cache |-> [exists |-> TRUE, tree |-> Snapshot(s, outcome)]]

\* REPO_CACHE_PATH.mkdir(parents=True, exist_ok=True)
mkdir(c) == IF c.exists THEN c ELSE [exists |-> TRUE, tree |-> {}]

\* A cache update that reports success whatever the clone did.
ensure_repo_updated_a2ui_lenient(c, co, po) ==
    IF ~c.exists
    THEN LET r == git_clone("a2ui", mkdir(c), co)
         IN [ok |-> TRUE, cache |-> r.cache, clones |-> 1, pulls |-> 0,
             cloneFailed |-> ~r.ok, pullFailed |-> FALSE]
    ELSE LET r == git_pull("a2ui", c, po)
         IN [ok |-> TRUE, cache |-> r.cache, clones |-> 0, pulls |-> 1,
             cloneFailed |-> FALSE, pullFailed |-> ~r.ok]

\* A cache update for which a failed pull is fatal.
ensure_repo_updated_a2ui_strict(c, co, po) ==
    IF ~c.exists
    THEN LET r == git_clone("a2ui", mkdir(c), co)
         IN [ok |-> r.ok, cache |-> r.cache, clones |-> 1, pulls |-> 0,
             cloneFailed |-> ~r.ok, pullFailed |-> FALSE]
    ELSE LET r == git_pull("a2ui", c, po)
         IN [ok |-> r.ok, cache |-> r.cache, clones |-> 0, pulls |-> 1,
             cloneFailed |-> FALSE, pullFailed |-> ~r.ok]

\* a2ui ensure_repo_updated(): clone if absent, else pull; co and po are what
\* the clone and the pull, if attempted, turn out to do.
ensure_repo_updated_a2ui(c, co, po) ==
    IF ~c.exists
    THEN LET r == git_clone("a2ui", mkdir(c), co)
         IN [ok |-> r.ok, cache |-> r.cache, clones |-> 1, pulls |-> 0,
             cloneFailed |-> ~r.ok, pullFailed |-> FALSE]
    ELSE LET r == git_pull("a2ui", c, po)
         IN [ok |-> TRUE, cache |-> r.cache, clones |-> 0, pulls |-> 1,
             cloneFailed |-> FALSE, pullFailed |-> ~r.ok]

\* adk ensure_repo_updated(): as a2ui, and a cache directory without .git is
\* removed and cloned again.
ensure_repo_updated_adk(c, co, po) ==
    IF ~c.exists
    THEN LET r == git_clone("adk", mkdir(c), co)
         IN [ok |-> r.ok, cache |-> r.cache, clones |-> 1, pulls |-> 0,
             cloneFailed |-> ~r.ok, pullFailed |-> FALSE]
    ELSE IF ~PathExists(c.tree, <<".git">>)
    THEN LET r == git_clone("adk", mkdir([exists |-> FALSE, tree |-> {}]), co)
         IN [ok |-> r.ok, cache |-> r.cache, clones |-> 1, pulls |-> 0,
             cloneFailed |-> ~r.ok, pullFailed |-> FALSE]
    ELSE LET r == git_pull("adk", c, po)
         IN [ok |-> TRUE, cache |-> r.cache, clones |-> 0, pulls |-> 1,
             cloneFailed |-> FALSE, pullFailed |-> ~r.ok]

ensure_repo_updated(s, c, co, po) ==
    IF s = "a2ui" THEN ensure_repo_updated_a2ui(c, co, po)
    ELSE ensure_repo_updated_adk(c, co, po)

(***************************************************************************)
(* main() of the update scripts                                            *)
(***************************************************************************)
NoCall == [op |-> "none", i |-> 0, srcExisted |-> FALSE, destExisted |-> FALSE,
           skillBefore |-> {}]

CacheKind(c) == IF ~c.exists THEN "absent"
                ELSE IF IsWorkingCopy(c) THEN "valid" ELSE "invalid"

\* The idle state of the prepare_agent half, untouched by the update scripts.
PrepIdle ==
    /\ files = <<>>
    /\ step = "off"
    /\ prep = <<>>
    /\ prepRuns = 0

SyncInit ==
    /\ script \in Scripts
    /\ cache \in InitialCaches(script)
    /\ \E layout \in StaleLayouts(script) : skill = SkillWith(script, layout)
    /\ pc = "idle"
    /\ idx = 0
    /\ run = [startKind |-> "none", cacheBefore |-> cache, skillBefore |-> skill,
              clones |-> 0, pulls |-> 0, cloneFailed |-> FALSE,
              pullFailed |-> FALSE, ensureOk |-> FALSE,
              calls |-> <<>>, exit |-> "none"]
    /\ last = NoCall
    /\ runs = 0
    /\ PrepIdle

\* main() up to the loop: ensure_repo_updated(), and sys.exit(1) when it fails.
MainStart ==
    /\ pc \in {"idle", "exited"}
    /\ runs < MaxRuns
    /\ \E co \in Outcomes, po \in Outcomes :
         LET r == ensure_repo_updated(script, cache, co, po)
         IN /\ cache' = r.cache
            /\ run' = [startKind |-> CacheKind(cache), cacheBefore |-> cache,
                       skillBefore |-> skill, clones |-> r.clones, pulls |-> r.pulls,
                       cloneFailed |-> r.cloneFailed,
                       pullFailed |-> r.pullFailed, ensureOk |-> r.ok,
                       calls |-> <<>>, exit |-> IF r.ok THEN "running" ELSE "1"]
            /\ pc' = IF r.ok THEN "sync" ELSE "exited"
    /\ idx' = 1
    /\ last' = NoCall
    /\ runs' = runs + 1
    /\ UNCHANGED <<script, skill>>
    /\ UNCHANGED prepVars

\* One iteration of main()'s loops: a call of sync_directory, or for the adk
\* docs mapping the test that guards the call.
MainSync ==
    /\ pc = "sync"
    /\ idx <= Len(Plan(script))
    /\ LET m == Plan(script)[idx]
           called == ~m.guarded \/ PathExists(cache.tree, m.src)
       IN /\ skill' = IF called THEN sync_directory(cache.tree, skill, m.src, m.dest)
                      ELSE skill
          /\ last' = [op |-> IF called THEN "sync" ELSE "guard", i |-> idx,
                      srcExisted |-> PathExists(cache.tree, m.src),
                      destExisted |-> PathExists(skill, m.dest),
                      skillBefore |-> skill]
          /\ run' = [run EXCEPT !.calls = IF called THEN Append(@, idx) ELSE @]
    /\ idx' = idx + 1
    /\ UNCHANGED <<script, cache, pc, runs>>
    /\ UNCHANGED prepVars

\* main() after the loops: the final log line and the normal exit.
MainFinish ==
    /\ pc = "sync"
    /\ idx > Len(Plan(script))
    /\ pc' = "exited"
    /\ run' = [run EXCEPT !.exit = "0"]
    /\ UNCHANGED <<script, cache, skill, idx, last, runs>>
    /\ UNCHANGED prepVars

SyncNext == MainStart \/ MainSync \/ MainFinish

SyncSpec == SyncInit /\ [][SyncNext]_vars

(***************************************************************************)
(* Properties of the update scripts                                        *)
(***************************************************************************)
Range(f) == {f[i] : i \in DOMAIN f}

\* The entries below (and including) directory p.
Subtree(tree, p) == {e \in tree : IsPrefix(p, e.path)}

\* What the destination must hold after a sync, stated without the copy's
\* recursion: every entry below src none of whose names below src is an
\* ignored name, moved below dst.
FilteredSource(repo, src, dst) ==
    {Dir(dst)} \cup
    {[path |-> dst \o SubSeq(e.path, Len(src) + 1, Len(e.path)), data |-> e.data] :
        e \in {x \in repo : /\ IsPrefix(src, x.path)
                            /\ Len(x.path) > Len(src)
                            /\ \A k \in (Len(src) + 1)..Len(x.path) :
                                  x.path[k] \notin IGNORE_PATTERNS}}

\* Mapping i has been dealt with in this run: sync_directory was called for
\* it, or (adk docs) main found its source missing and made no call.
Processed(i) ==
    \/ i \in Range(run.calls)
    \/ Plan(script)[i].guarded /\ ~PathExists(cache.tree, Plan(script)[i].src)

\* C1: after sync_directory returns for a mapping whose source exists and
\* whose destination existed with unrelated content, the destination holds
\* exactly the source subtree minus the entries with an ignored name at any
\* depth (and what lies below them), and nothing the destination held before
\* remains unless the filtered source has it too.
C1_SyncReplacesDestination ==
    (last.op = "sync" /\ last.srcExisted /\ last.destExisted) =>
        LET m == Plan(script)[last.i]
            want == FilteredSource(cache.tree, m.src, m.dest)
        IN /\ Subtree(skill, m.dest) = want
           /\ \A e \in Subtree(last.skillBefore, m.dest) : e \in skill => e \in want
           /\ skill \ Subtree(skill, m.dest)
                = ((last.skillBefore \ Subtree(last.skillBefore, m.dest))
                     \cup (makedirs(m.dest) \ {Dir(m.dest)}))

C1_Witness ==
    /\ last.op = "sync" /\ last.srcExisted /\ last.destExisted
    /\ File(Plan(script)[last.i].dest \o <<"old.txt">>, "old") \in last.skillBefore
    /\ Dir(Plan(script)[last.i].src \o <<"src", "__pycache__">>) \in cache.tree
    /\ File(Plan(script)[last.i].dest \o <<"src", "main.py">>, "v1") \in skill

\* C2: a run that starts with the cache directory absent makes exactly one
\* clone and no pull; if that clone fails, no sync_directory call is made,
\* the skill folder is as it was, and the run has ended with sys.exit(1).
C2_AbsentCacheOneClone ==
    (run.startKind = "absent") =>
        /\ run.clones = 1
        /\ run.pulls = 0
        /\ run.cloneFailed =>
              /\ run.calls = <<>>
              /\ last.op = "none"
              /\ skill = run.skillBefore
              /\ pc = "exited"
              /\ run.exit = "1"

C2_Witness ==
    /\ run.startKind = "absent" /\ run.cloneFailed /\ pc = "exited"
    /\ \E i \in 1..Len(Plan(script)) : PathExists(skill, Plan(script)[i].dest)

\* C3 as stated: a cache directory that is present but is no working copy is
\* removed and cloned again, never pulled, and whenever ensure_repo_updated
\* has returned success the cache is a working copy.
C3_InvalidCacheRecloned ==
    /\ (run.startKind = "invalid") => (run.pulls = 0 /\ run.clones = 1)
    /\ run.ensureOk => IsWorkingCopy(cache)

\* C4: with a working copy in the cache, a failing pull is not fatal:
\* ensure_repo_updated returns success, the cache is as it was, the run does
\* not exit with 1, and once it has ended every mapping has been processed
\* from the stale cache.
C4_PullFailureNonFatal ==
    (run.startKind = "valid" /\ run.pullFailed) =>
        /\ run.ensureOk
        /\ cache = run.cacheBefore
        /\ run.exit # "1"
        /\ pc \in {"sync", "exited"}
        /\ \A i \in 1..(idx - 1) : Processed(i)
        /\ pc = "exited" =>
              /\ run.exit = "0"
              /\ \A i \in 1..Len(Plan(script)) :
                    /\ Processed(i)
                    /\ PathExists(run.cacheBefore.tree, Plan(script)[i].src) =>
                          Subtree(skill, Plan(script)[i].dest)
                            = FilteredSource(run.cacheBefore.tree, Plan(script)[i].src,
                                             Plan(script)[i].dest)

C4_Witness ==
    /\ run.startKind = "valid" /\ run.pullFailed
    /\ pc = "exited" /\ run.exit = "0"
    /\ skill # run.skillBefore

\* C10: a sync_directory call for a mapping whose source is missing leaves the
\* skill folder (the destination included, present or not) exactly as it was,
\* the run goes on with the next mapping, and it ends with the normal exit
\* after every mapping has been processed.
C10_MissingSourceSkipped ==
    /\ (last.op = "sync" /\ ~last.srcExisted) =>
          /\ skill = last.skillBefore
          /\ idx = last.i + 1
          /\ run.exit # "1"
          /\ pc = "sync" \/ (pc = "exited" /\ idx = Len(Plan(script)) + 1)
    /\ (pc = "exited" /\ Len(run.calls) > 0) =>
          /\ run.exit = "0"
          /\ \A i \in 1..Len(Plan(script)) : Processed(i)

C10_Witness ==
    /\ last.op = "sync" /\ ~last.srcExisted /\ last.destExisted
    /\ pc = "exited" /\ run.exit = "0"
    /\ \E i \in Range(run.calls) :
          i < last.i /\ ~PathExists(cache.tree, Plan(script)[i].src)
                     /\ PathExists(cache.tree, Plan(script)[i + 1].src)

(***************************************************************************)
(* prepare_agent.py: text files as token sequences                         *)
(***************************************************************************)
\* Number of lines a configuration file holds before the first run.
MaxLines == 2

NL == "\n"
\* The token standing for a run of three backquotes (a Markdown fence).
FENCE == "fence"
Whitespace == {" ", NL}

\* Index of the first occurrence of token c in t, 0 when there is none.
find(t, c) ==
    IF \E i \in 1..Len(t) : t[i] = c
    THEN CHOOSE i \in 1..Len(t) : t[i] = c /\ \A j \in 1..(i - 1) : t[j] # c
    ELSE 0

\* for line in f: the lines of a text, each with its terminator.
RECURSIVE readlines(_)
readlines(t) ==
    IF t = <<>> THEN <<>>
    ELSE LET k == find(t, NL)
         IN IF k = 0 THEN <<t>>
            ELSE <<SubSeq(t, 1, k)>> \o readlines(SubSeq(t, k + 1, Len(t)))

\* str.split("\n")
RECURSIVE split_lines(_)
split_lines(t) ==
    LET k == find(t, NL)
    IN IF k = 0 THEN <<t>>
       ELSE <<SubSeq(t, 1, k - 1)>> \o split_lines(SubSeq(t, k + 1, Len(t)))

RECURSIVE lstrip(_)
lstrip(t) == IF t # <<>> /\ Head(t) \in Whitespace THEN lstrip(Tail(t)) ELSE t

RECURSIVE rstrip(_)
rstrip(t) ==
    IF t # <<>> /\ t[Len(t)] \in Whitespace THEN rstrip(SubSeq(t, 1, Len(t) - 1)) ELSE t

\* str.strip()
strip(t) == rstrip(lstrip(t))

\* str.startswith(c) for a one-token prefix.
startswith(t, c) == t # <<>> /\ Head(t) = c

\* needle in text
contains(t, needle) ==
    \E i \in 1..(Len(t) - Len(needle) + 1) : SubSeq(t, i, i + Len(needle) - 1) = needle

RECURSIVE concat(_)
concat(ss) == IF ss = <<>> THEN <<>> ELSE Head(ss) \o concat(Tail(ss))

NoFile == [exists |-> FALSE, text |-> <<>>]
TextFile(t) == [exists |-> TRUE, text |-> t]

\* open(path, "a") followed by the writes t: creates the file when absent.
append(f, t) == TextFile(f.text \o t)

(***************************************************************************)
(* Step 1: .ae_ignore                                                      *)
(***************************************************************************)
\* baseline_ignores without its last pattern.
baseline_ignores_short ==
    { <<"__pycache__">>, <<"*.pyc">>, <<".git">>, <<".venv">>, <<"deploy">>,
      <<".ds_store">>, <<".terraform">>, <<".terraform.lock.hcl">>, <<"venv">>,
      <<"env">>, <<".idea">>, <<".vscode">>, <<"*.zip">>, <<"*.pkl">> }

baseline_ignores ==
    { <<"__pycache__">>, <<"*.pyc">>, <<".git">>, <<".venv">>, <<"deploy">>,
      <<".ds_store">>, <<".terraform">>, <<".terraform.lock.hcl">>, <<"venv">>,
      <<"env">>, <<".idea">>, <<".vscode">>, <<"*.zip">>, <<"*.pkl">>,
      <<"schema.json">> }

\* get_llm_ignores after the model has answered: the response parsed as one
\* pattern per line, fence lines dropped.
get_llm_ignores(response) ==
    LET text == strip(response)
        raw == split_lines(text)
        lines == [i \in DOMAIN raw |-> strip(raw[i])]
    IN {lines[i] : i \in {j \in DOMAIN lines : lines[j] # <<>> /\ ~startswith(lines[j], FENCE)}}

\* What the model-suggestion sub-step can turn out to be: no project id,
\* vertexai not importable, an exception inside get_llm_ignores, or a response.
LlmResponses ==
    { <<FENCE, NL, ".git", NL, " ", "data", NL, FENCE>>,
      <<"#", "tmp", "#", NL, NL, "venv", " ", NL>> }

LlmOutcomes ==
    { [kind |-> "no_project", text |-> <<>>], [kind |-> "import_error", text |-> <<>>],
      [kind |-> "exception", text |-> <<>>] }
    \cup { [kind |-> "response", text |-> r] : r \in LlmResponses }

\* llm_ignores as prepare_agent ends up with it.
llm_ignores(outcome) ==
    IF outcome.kind = "response" THEN get_llm_ignores(outcome.text) ELSE {}

\* Every pattern a run can handle, in the order sorted() gives strings.
PatternOrder ==
    << <<"#", "tmp", "#">>, <<"*.pkl">>, <<"*.pyc">>, <<"*.zip">>, <<".ds_store">>,
       <<".git">>, <<".idea">>, <<".terraform">>, <<".terraform.lock.hcl">>, <<".venv">>,
       <<".vscode">>, <<"__pycache__">>, <<"data">>, <<"deploy">>, <<"env">>,
       <<"node_modules">>, <<"schema.json">>, <<"venv">> >>

\* sorted(patterns)
sorted(patterns) == SelectSeq(PatternOrder, LAMBDA p : p \in patterns)

\* final_ignores = baseline_ignores.union(llm_ignores)
final_ignores(llm) == baseline_ignores \cup llm

\* current_ignores: the stripped lines of .ae_ignore that are not blank and
\* do not start with "#".
current_ignores(f) ==
    IF ~f.exists THEN {}
    ELSE LET ls == readlines(f.text)
         IN {strip(ls[i]) : i \in {j \in DOMAIN ls : strip(ls[j]) # <<>> /\ ~startswith(ls[j], "#")}}

IGNORE_MARKER ==
    <<"#", " ", "Added by Agent Engine Deployer Skill (Hybrid Analysis)", NL>>

\* The appended text without the separating line break.
ignore_writes_unseparated(current, missing) ==
    IGNORE_MARKER
    \o concat([i \in DOMAIN sorted(missing) |-> sorted(missing)[i] \o <<NL>>])

\* What the step writes to .ae_ignore when patterns are missing.
ignore_writes(current, missing) ==
    (IF current # {} THEN <<NL>> ELSE <<>>)
    \o IGNORE_MARKER
    \o concat([i \in DOMAIN sorted(missing) |-> sorted(missing)[i] \o <<NL>>])

(***************************************************************************)
(* Step 2: requirements.txt                                                *)
(***************************************************************************)
mandatory_dep == <<"google-cloud-aiplatform", "[", "agent_engines", ",adk]">>

\* A test that is satisfied by either substring.
has_dep_either(f) ==
    /\ f.exists
    /\ \/ contains(f.text, <<"google-cloud-aiplatform">>)
       \/ contains(f.text, <<"agent_engines">>)

\* has_dep
has_dep(f) ==
    /\ f.exists
    /\ contains(f.text, <<"google-cloud-aiplatform">>)
    /\ contains(f.text, <<"agent_engines">>)

requirements_writes ==
    <<NL, "#", " ", "Mandatory for Agent Engine", NL>> \o mandatory_dep \o <<NL>>

(***************************************************************************)
(* Step 3: .env                                                            *)
(***************************************************************************)
telemetry_vars ==
    << [key |-> <<"GOOGLE_CLOUD_AGENT_ENGINE_ENABLE_TELEMETRY">>, val |-> <<"true">>],
       [key |-> <<"OTEL_INSTRUMENTATION_GENAI_CAPTURE_MESSAGE_CONTENT">>, val |-> <<"true">>] >>

\* A parse that keeps the key as it stands before the "=".
RECURSIVE parse_env_raw(_, _)
parse_env_raw(ls, acc) ==
    IF ls = <<>> THEN acc
    ELSE LET line == Head(ls)
             k == find(line, "=")
         IN IF k # 0 /\ ~startswith(strip(line), "#")
            THEN LET key == SubSeq(line, 1, k - 1)
                     val == strip(SubSeq(line, k + 1, Len(line)))
                 IN parse_env_raw(Tail(ls),
                        {p \in acc : p.key # key} \cup {[key |-> key, val |-> val]})
            ELSE parse_env_raw(Tail(ls), acc)

existing_vars_raw(f) == IF ~f.exists THEN {} ELSE parse_env_raw(readlines(f.text), {})

\* The loop that fills existing_vars: a later line replaces an earlier one.
RECURSIVE parse_env(_, _)
parse_env(ls, acc) ==
    IF ls = <<>> THEN acc
    ELSE LET line == Head(ls)
             k == find(line, "=")
         IN IF k # 0 /\ ~startswith(strip(line), "#")
            THEN LET key == strip(SubSeq(line, 1, k - 1))
                     val == strip(SubSeq(line, k + 1, Len(line)))
                 IN parse_env(Tail(ls),
                        {p \in acc : p.key # key} \cup {[key |-> key, val |-> val]})
            ELSE parse_env(Tail(ls), acc)

\* existing_vars as a set of [key, val] pairs, one per key.
existing_vars(f) == IF ~f.exists THEN {} ELSE parse_env(readlines(f.text), {})

\* new_vars, in the order of telemetry_vars.
new_vars(existing) ==
    SelectSeq(telemetry_vars, LAMBDA t : ~\E p \in existing : p.key = t.key)

ENV_MARKER == <<NL, "#", " ", "Added by Agent Engine Deployer Skill", NL>>

env_writes(new) ==
    ENV_MARKER \o concat([i \in DOMAIN new |-> new[i].key \o <<"=">> \o new[i].val \o <<NL>>])

(***************************************************************************)
(* prepare_agent: the inputs                                               *)
(***************************************************************************)
K1 == "GOOGLE_CLOUD_AGENT_ENGINE_ENABLE_TELEMETRY"
K2 == "OTEL_INSTRUMENTATION_GENAI_CAPTURE_MESSAGE_CONTENT"

\* Lines a file can hold before the first run, without their terminator.
LineShapes(which) ==
    IF which = "ignore"
    THEN { <<".git">>, <<"data">>, <<"#", " ", "note">>, <<" ", "venv", " ">>, <<" ">> }
    ELSE IF which = "req"
    THEN { <<"flask">>, <<"google-cloud-aiplatform">>, <<"#", " ", "agent_engines">>,
           <<"google-cloud-aiplatform", "[", "agent_engines", "]">> }
    ELSE { <<K1, "=", "false">>, <<"#", K1, "=", "false">>,
           <<" ", K2, " ", "=", " ", "false">>, <<K1>>, <<" ", "#", K2, "=", "x">> }

RECURSIVE TextsOfLines(_, _)
TextsOfLines(shapes, n) ==
    IF n = 0 THEN {<<>>}
    ELSE LET shorter == TextsOfLines(shapes, n - 1)
         IN shorter \cup {t \o l \o <<NL>> : t \in shorter, l \in shapes}

\* Texts of at most MaxLines lines, the last line with or without terminator.
InitialTexts(which) ==
    LET T == TextsOfLines(LineShapes(which), MaxLines)
    IN T \cup {SubSeq(t, 1, Len(t) - 1) : t \in T \ {<<>>}}

\* A file of one ordinary line.
PlainFile(which) ==
    TextFile((IF which = "ignore" THEN <<"data">>
              ELSE IF which = "req" THEN <<"flask">>
              ELSE <<"PORT", "=", "8080">>) \o <<NL>>)

FileNames == {"ignore", "req", "env"}

(***************************************************************************)
(* prepare_agent                                                           *)
(***************************************************************************)
\* The idle state of the update-script half, untouched by prepare_agent.
SyncIdle ==
    /\ script = "none"
    /\ cache = [exists |-> FALSE, tree |-> {}]
    /\ skill = {}
    /\ pc = "off"
    /\ idx = 0
    /\ run = <<>>
    /\ last = NoCall
    /\ runs = 0

NoWrites == [ignore |-> FALSE, req |-> FALSE, env |-> FALSE]

PrepInit ==
    /\ \/ files = [dir |-> FALSE, ignore |-> NoFile, req |-> NoFile, env |-> NoFile]
       \/ files = [dir |-> TRUE, ignore |-> PlainFile("ignore"), req |-> PlainFile("req"),
                   env |-> PlainFile("env")]
       \/ \E focus \in FileNames :
            \E f \in {NoFile} \cup {TextFile(t) : t \in InitialTexts(focus)} :
               files = [[dir |-> TRUE, ignore |-> NoFile, req |-> NoFile, env |-> NoFile]
                           EXCEPT ![focus] = f]
    /\ step = "idle"
    /\ prep = [before |-> files, llm |-> {}, prevLlm |-> {}, wrote |-> NoWrites,
               reqAppends |-> 0]
    /\ prepRuns = 0
    /\ SyncIdle

\* prepare_agent up to the listing: os.listdir(agent_dir), and the early
\* return when the directory does not exist.
PrepareList ==
    /\ step \in {"idle", "done"}
    /\ prepRuns < MaxRuns
    /\ step' = IF files.dir THEN "ignore" ELSE "done"
    /\ prep' = [prep EXCEPT !.before = files, !.prevLlm = prep.llm, !.llm = {},
                            !.wrote = NoWrites]
    /\ prepRuns' = prepRuns + 1
    /\ UNCHANGED files
    /\ UNCHANGED syncVars

\* Step 1: the candidate patterns, the patterns .ae_ignore has, and the
\* append of the missing ones.
PrepareIgnore ==
    /\ step = "ignore"
    /\ \E outcome \in LlmOutcomes :
         LET llm == llm_ignores(outcome)
             current == current_ignores(files.ignore)
             missing == final_ignores(llm) \ current
         IN /\ files' = IF missing # {}
                        THEN [files EXCEPT !.ignore = append(@, ignore_writes(current, missing))]
                        ELSE files
            /\ prep' = [prep EXCEPT !.llm = llm, !.wrote.ignore = (missing # {})]
    /\ step' = "req"
    /\ UNCHANGED prepRuns
    /\ UNCHANGED syncVars

\* Step 2: the dependency test on requirements.txt and the append.
PrepareRequirements ==
    /\ step = "req"
    /\ files' = IF ~has_dep(files.req)
                THEN [files EXCEPT !.req = append(@, requirements_writes)]
                ELSE files
    /\ prep' = [prep EXCEPT !.wrote.req = ~has_dep(files.req),
                            !.reqAppends = IF has_dep(files.req) THEN @ ELSE @ + 1]
    /\ step' = "env"
    /\ UNCHANGED prepRuns
    /\ UNCHANGED syncVars

\* Step 3: the telemetry keys .env lacks are appended.
PrepareEnv ==
    /\ step = "env"
    /\ LET new == new_vars(existing_vars(files.env))
       IN /\ files' = IF new # <<>>
                      THEN [files EXCEPT !.env = append(@, env_writes(new))]
                      ELSE files
          /\ prep' = [prep EXCEPT !.wrote.env = (new # <<>>)]
    /\ step' = "done"
    /\ UNCHANGED prepRuns
    /\ UNCHANGED syncVars

PrepNext == PrepareList \/ PrepareIgnore \/ PrepareRequirements \/ PrepareEnv

PrepSpec == PrepInit /\ [][PrepNext]_vars

(***************************************************************************)
(* Properties of prepare_agent                                             *)
(***************************************************************************)
\* The lines of a text that are entries: not blank and, leading blanks
\* aside, not a comment; stripped, in file order.
EntryLines(t) ==
    LET ls == readlines(t)
        stripped == [i \in DOMAIN ls |-> strip(ls[i])]
    IN SelectSeq(stripped, LAMBDA l : l # <<>> /\ ~startswith(l, "#"))

\* What the run at hand has appended to file f so far.
Appended(f) ==
    SubSeq(files[f].text, Len(prep.before[f].text) + 1, Len(files[f].text))

\* Line l assigns environment key k.
Assigns(l, k) ==
    LET t == strip(l)
    IN /\ ~startswith(t, "#")
       /\ find(t, "=") # 0
       /\ strip(SubSeq(t, 1, find(t, "=") - 1)) = <<k>>

\* The value the last assignment of k in text t gives it.
EffectiveValue(t, k) ==
    LET ls == readlines(t)
        at == {i \in DOMAIN ls : Assigns(ls[i], k)}
    IN IF at = {} THEN <<"(unset)">>
       ELSE LET m == CHOOSE i \in at : \A j \in at : j <= i
                l == strip(ls[m])
            IN strip(SubSeq(l, find(l, "=") + 1, Len(l)))

TheBaseline ==
    { <<"__pycache__">>, <<"*.pyc">>, <<".git">>, <<".venv">>, <<"deploy">>,
      <<".ds_store">>, <<".terraform">>, <<".terraform.lock.hcl">>, <<"venv">>,
      <<"env">>, <<".idea">>, <<".vscode">>, <<"*.zip">>, <<"*.pkl">>,
      <<"schema.json">> }

TheDependency == <<"google-cloud-aiplatform", "[", "agent_engines", ",adk]">>

AfterIgnoreStep == files.dir /\ step \in {"req", "env", "done"}

EmptyTargetDone ==
    /\ prepRuns = 1 /\ step = "done" /\ files.dir
    /\ \A f \in FileNames : ~prep.before[f].exists

\* C5 as stated: when a run of the exclusion-file step follows another with
\* the same model-suggested set, the second performs no write to .ae_ignore
\* (so repeated runs add no pattern a second time).
C5_IgnoreStepIdempotent ==
    (prepRuns >= 2 /\ AfterIgnoreStep /\ prep.llm = prep.prevLlm) =>
        /\ ~prep.wrote.ignore
        /\ files.ignore = prep.before.ignore

\* The same with the model-suggested patterns that start with "#" left out.
IgnoreStepIdempotentWithoutHash ==
    (/\ prepRuns >= 2 /\ AfterIgnoreStep /\ prep.llm = prep.prevLlm
     /\ \A p \in prep.llm : ~startswith(p, "#")) =>
        /\ ~prep.wrote.ignore
        /\ files.ignore = prep.before.ignore

\* C6: the environment step never overwrites and only adds: for each of the
\* two telemetry keys, if .env had a non-comment line assigning the key, the
\* step appends no line for it and its effective value is unchanged; if the
\* key was absent, exactly one line KEY=true is appended.
C6_EnvNeverOverwrites ==
    (files.dir /\ step = "done") =>
        /\ IsPrefix(prep.before.env.text, files.env.text)
        /\ \A k \in {K1, K2} :
              LET before == prep.before.env.text
                  added == readlines(Appended("env"))
                  forKey == {i \in DOMAIN added : Assigns(added[i], k)}
              IN IF \E i \in DOMAIN readlines(before) : Assigns(readlines(before)[i], k)
                 THEN /\ forKey = {}
                      /\ EffectiveValue(files.env.text, k) = EffectiveValue(before, k)
                 ELSE /\ Cardinality(forKey) = 1
                      /\ \A i \in forKey : added[i] = <<k, "=", "true", NL>>
                      /\ EffectiveValue(files.env.text, k) = <<"true">>

C6_Witness ==
    /\ files.dir /\ step = "done" /\ prep.wrote.env
    /\ EffectiveValue(prep.before.env.text, K2) = <<"false">>
    /\ EffectiveValue(prep.before.env.text, K1) = <<"(unset)">>
    /\ K1 \in Range(prep.before.env.text)

\* C7: the dependency step is a substring test: the fixed line is appended
\* exactly when requirements.txt is absent or lacks one of the substrings
\* google-cloud-aiplatform and agent_engines; a file with both anywhere is
\* left unwritten; over all runs the line is appended at most once.
C7_DependencySubstringTest ==
    /\ prep.reqAppends <= 1
    /\ (files.dir /\ step \in {"env", "done"}) =>
          LET b == prep.before.req
              satisfied == /\ b.exists
                           /\ "google-cloud-aiplatform" \in Range(b.text)
                           /\ "agent_engines" \in Range(b.text)
          IN IF satisfied
             THEN files.req = b /\ ~prep.wrote.req
             ELSE /\ prep.wrote.req
                  /\ files.req.exists
                  /\ files.req.text =
                        b.text \o <<NL, "#", " ", "Mandatory for Agent Engine", NL>>
                               \o TheDependency \o <<NL>>

C7_Witness ==
    /\ files.dir /\ step = "done" /\ prepRuns = 2
    /\ prep.before.req.text
         = <<"google-cloud-aiplatform", NL, "#", " ", "agent_engines", NL>>
    /\ ~prep.wrote.req /\ prep.reqAppends = 0

\* C8 as stated: a run on an existing directory without .ae_ignore,
\* requirements.txt and .env leaves an ignore file whose entries are exactly
\* the 15 baseline patterns, a requirements file whose only entry is the
\* mandatory dependency line, and an environment file whose only assignments
\* are the two telemetry keys set to true.
C8_EmptyTargetExactlyBaseline ==
    EmptyTargetDone =>
        /\ LET e == EntryLines(files.ignore.text)
           IN Range(e) = TheBaseline /\ Len(e) = 15
        /\ EntryLines(files.req.text) = <<TheDependency>>
        /\ EntryLines(files.env.text) = << <<K1, "=", "true">>, <<K2, "=", "true">> >>

\* C8 amended: on such a directory the ignore file is the marker comment
\* followed by exactly one line per pattern of the 15 baseline patterns
\* united with the run's model-suggested set, so its entries are exactly the
\* 15 baseline patterns whenever the model suggests nothing beyond them; the
\* requirements and environment files are as stated.
C8_EmptyTargetBaselinePlusSuggested ==
    EmptyTargetDone =>
        /\ LET ls == readlines(files.ignore.text)
               want == TheBaseline \cup prep.llm
           IN /\ Len(ls) = 1 + Cardinality(want)
              /\ ls[1] = <<"#", " ", "Added by Agent Engine Deployer Skill (Hybrid Analysis)", NL>>
              /\ {ls[i] : i \in 2..Len(ls)} = {p \o <<NL>> : p \in want}
              /\ prep.llm \subseteq TheBaseline =>
                    /\ Range(EntryLines(files.ignore.text)) = TheBaseline
                    /\ Len(EntryLines(files.ignore.text)) = 15
        /\ EntryLines(files.req.text) = <<TheDependency>>
        /\ EntryLines(files.env.text) = << <<K1, "=", "true">>, <<K2, "=", "true">> >>

C8_Witness ==
    /\ EmptyTargetDone
    /\ prep.llm = {}
    /\ prep.wrote = [ignore |-> TRUE, req |-> TRUE, env |-> TRUE]

\* C9: the three steps only append: each file's content before the run is a
\* prefix of its content after it, the entries it had are still its first
\* entries, unchanged and in the same order, and every entry that is new is
\* a line of its own: a candidate pattern, the dependency line or a
\* telemetry assignment.
C9_AppendOnly ==
    files.dir =>
        \A f \in FileNames :
            LET b == prep.before[f]
                old == EntryLines(b.text)
                now == EntryLines(files[f].text)
                fresh == {now[i] : i \in (Len(old) + 1)..Len(now)}
            IN /\ b.exists => files[f].exists
               /\ IsPrefix(b.text, files[f].text)
               /\ IsPrefix(old, now)
               /\ fresh \subseteq
                     IF f = "ignore" THEN TheBaseline \cup prep.llm
                     ELSE IF f = "req" THEN {TheDependency}
                     ELSE {<<K1, "=", "true">>, <<K2, "=", "true">>}

C9_Witness ==
    /\ files.dir /\ step = "done"
    /\ prep.wrote.ignore
    /\ prep.before.ignore.text # <<>>
    /\ prep.before.ignore.text[Len(prep.before.ignore.text)] # NL
    /\ EntryLines(prep.before.ignore.text) # <<>>
    /\ strip(readlines(prep.before.ignore.text)[Len(readlines(prep.before.ignore.text))]) # <<>>

====
